---- MODULE Spec2Model ----
(***************************************************************************)
(* Model of the rustplus client core: BaseRustSocket (base_rust_api.py)    *)
(* and RustRemote (remote/rust_remote_interface.py).                       *)
(*                                                                         *)
(* The client runs on one cooperative event loop.  A coroutine runs        *)
(* without interruption from one `await` that suspends to the next, so     *)
(* every action below is one such run: it starts where a coroutine is      *)
(* created or woken and ends at the next asyncio.sleep, at a return or at  *)
(* a raise.  Sequential code is written as operators that map a state      *)
(* record `st` (one field per variable) to the state after the code ran;   *)
(* an action evaluates such an operator on Cur and installs the result.    *)
(*                                                                         *)
(* RateLimiter, RustWebsocket and the EntityEvent handler registry are     *)
(* not part of the source files; their operators are written from the      *)
(* specification's contracts and are marked as such where defined.         *)
(***************************************************************************)
EXTENDS Integers, Sequences, FiniteSets, TLC

(***************************************************************************)
(* Bounds of the model.                                                    *)
(***************************************************************************)
\* identities (host, port, owner id) a client may be switched between
NumIds == 2
\* coroutines (calls) that may be in flight at the same time
NumCalls == 2
\* sequence numbers issued between two endpoint switches
MaxSeq == 2
\* ratelimit_limit and ratelimit_refill given to the constructor
Capacity == 2
RefillAmount == 1
\* entity ids and camera ids callers use
NumEntities == 1
NumCams == 2
\* coroutines callers decorate as listeners
NumCoros == 1
\* switch_server calls in one behaviour
MaxSwitches == 1
\* rate_limit replies the server sends in one behaviour
MaxRateLimits == 1
\* copies of one envelope the transport holds unanswered
MaxDup == 1
\* entries of pending_entity_subscriptions
MaxQueue == 2
\* connections opened in one behaviour
MaxConnects == 2
\* the history counters of a call (rl, rtx, atx) count up to MaxCount
MaxCount == 2

(***************************************************************************)
(* Program constants.                                                      *)
(***************************************************************************)
\* _handle_ratelimit(self, amount=1)
Amount == 1
\* get_response: `if attempts <= 10` and `if attempts <= 40`
ShortPolls == 10
SentPolls == 40
\* self.seq = 1
FirstSeq == 1

Ids == 1..NumIds
Calls == 1..NumCalls
SeqNums == FirstSeq..MaxSeq
Entities == 1..NumEntities
Cams == 1..NumCams
Coros == 1..NumCoros
\* the coroutine decorated by entity_event
EntityCoro == 1

NoReply == [seq |-> 0, error |-> "none", info |-> 0]
Errors == {"", "rate_limit", "not_found"}

VARIABLES
    server_id,                      \* BaseRustSocket.server_id and RustRemote.server_id
    seq,                            \* BaseRustSocket.seq
    raise_ratelimit_exception,      \* BaseRustSocket.raise_ratelimit_exception
    use_test_server,                \* BaseRustSocket.use_test_server
    socket_buckets,                 \* RateLimiter.socket_buckets: identity -> tokens of its bucket
    ws,                             \* RustRemote.ws and its connection_status
    connecting,                     \* a RustRemote.connect coroutine awaits ws.connect
    wire,                           \* envelopes the transport took and the server has not answered
    pending_for_response,           \* RustRemote.pending_for_response (its keys)
    responses,                      \* RustRemote.responses: seq -> reply
    ignored_responses,              \* RustRemote.ignored_responses
    sent_requests,                  \* RustRemote.sent_requests
    pending_entity_subscriptions,   \* RustRemote.pending_entity_subscriptions
    handlers,                       \* EntityEvent.handlers
    registries,                     \* ChatEvent, TeamEvent, ProtobufEvent .handlers and marker_listener's listeners
    camera_manager,                 \* RustRemote.camera_manager (its _cam_id, 0 for None)
    calls,                          \* the coroutines in flight: position and locals of each
    last,                           \* history: the call that ended in the last step, if one did
    hist                            \* history: what has been observed so far

vars == << server_id, seq, raise_ratelimit_exception, use_test_server,
           socket_buckets, ws, connecting, wire, pending_for_response,
           responses, ignored_responses, sent_requests,
           pending_entity_subscriptions, handlers, registries, camera_manager,
           calls, last, hist >>

\* the state as one record, for the operators that model sequential code
Cur ==
    [ server_id |-> server_id, seq |-> seq,
      raise_ratelimit_exception |-> raise_ratelimit_exception,
      use_test_server |-> use_test_server,
      socket_buckets |-> socket_buckets, ws |-> ws, connecting |-> connecting,
      wire |-> wire, pending_for_response |-> pending_for_response,
      responses |-> responses, ignored_responses |-> ignored_responses,
      sent_requests |-> sent_requests,
      pending_entity_subscriptions |-> pending_entity_subscriptions,
      handlers |-> handlers, registries |-> registries,
      camera_manager |-> camera_manager,
      calls |-> calls, hist |-> hist ]

Min(a, b) == IF a <= b THEN a ELSE b

\* a history counter counts one more
Count(n) == Min(n + 1, MaxCount)

\* a function without the key k
Without(f, k) == [x \in DOMAIN f \ {k} |-> f[x]]


(***************************************************************************)
(* Calls.  A call is one coroutine of the client: a send_wakeup_request,   *)
(* a create_camera_manager, or the get_entity_info coroutine that          *)
(* handle_subscribing_entity schedules.  pc is where it is suspended:      *)
(*   start    scheduled on the loop, not yet run                           *)
(*   admit    asleep in _handle_ratelimit (line 91)                        *)
(*   poll1    asleep in get_response's first `if` (lines 131, 136)         *)
(*   poll2    asleep in get_response's second `if` (lines 140, 145)        *)
(*   refill   asleep in the recovery's refill loop (line 166)              *)
(*   readmit  asleep in the recovery's admission loop (line 178)           *)
(*   result   the coroutine returned or raised and its future is done,     *)
(*            no done callback attached yet (`attached` is FALSE from      *)
(*            run_coroutine_threadsafe, line 224, to add_done_callback,    *)
(*            line 227, when another thread runs them)                     *)
(*   done     returned or raised (exc); the step that ends a call moves    *)
(*            its record to `last` and frees its slot                      *)
(* The fields from `ep` on are history: they record what happened to the   *)
(* call and are read by no operator that models code; `beats` counts the   *)
(* heartbeat.reset_rhythm() calls made for it, `atx` its transmissions     *)
(* that followed a consume of the limiter, `closed` that the connection    *)
(* was closed while it polled and `late` that it transmitted after that,   *)
(* `ran_on` the thread that ran its done callback, `flipped` that the      *)
(* membership of its sequence number in sent_requests changed since its    *)
(* envelope was last transmitted.                                          *)
(***************************************************************************)
IdleCall ==
    [ kind |-> "none", pc |-> "idle", seq |-> 0, id |-> 0, arg |-> 0,
      attempts |-> 0, error_check |-> TRUE, exc |-> "",
      ep |-> 0, qi |-> 0, rl |-> 0, rtx |-> 0, took |-> NoReply,
      caller_saw |-> "", refused |-> FALSE, beats |-> 0, atx |-> 0,
      closed |-> FALSE, late |-> FALSE, attached |-> TRUE, ran_on |-> "",
      flipped |-> FALSE ]

\* the state after a step: st, with the call that ended in it moved to `last`
\* (s is st, evaluated once)
Install(st) ==
    \E s \in {st} :
        /\ server_id' = s.server_id
        /\ seq' = s.seq
        /\ raise_ratelimit_exception' = s.raise_ratelimit_exception
        /\ use_test_server' = s.use_test_server
        /\ socket_buckets' = s.socket_buckets
        /\ ws' = s.ws
        /\ connecting' = s.connecting
        /\ wire' = s.wire
        /\ pending_for_response' = s.pending_for_response
        /\ responses' = s.responses
        /\ ignored_responses' = s.ignored_responses
        /\ sent_requests' = s.sent_requests
        /\ pending_entity_subscriptions' = s.pending_entity_subscriptions
        /\ handlers' = s.handlers
        /\ registries' = s.registries
        /\ camera_manager' = s.camera_manager
        /\ calls' = [c \in DOMAIN s.calls |->
                        IF s.calls[c].pc = "done" THEN IdleCall ELSE s.calls[c]]
        /\ last' = IF \E c \in DOMAIN s.calls : s.calls[c].pc = "done"
                   THEN s.calls[CHOOSE c \in DOMAIN s.calls : s.calls[c].pc = "done"]
                   ELSE IdleCall
        /\ hist' = s.hist

NewCall(st, kind, arg, qi) ==
    [ IdleCall EXCEPT !.kind = kind, !.pc = "start", !.arg = arg,
                      !.ep = st.hist.epoch, !.qi = qi ]

\* the AppRequest a call built: seq, player id/token, payload
Envelope(k) == [seq |-> k.seq, id |-> k.id, kind |-> k.kind, arg |-> k.arg]

Free(st, c) == st.calls[c].pc = "idle"
FreeCalls(st) == {c \in Calls : Free(st, c)}
\* calls that will still draw a sequence number
Waiting(st) == {c \in Calls : st.calls[c].pc \in {"start", "admit"}}

Failed(st, c) == st.calls[c].exc # ""

\* `raise e` in call c, propagated to the top of its coroutine.  The caller of
\* send_wakeup_request or create_camera_manager awaits the coroutine and so
\* observes e; the get_entity_info coroutine is a scheduled future whose
\* requester returned long before (caller_saw is left as it is).
Raise(st, c, e) ==
    [st EXCEPT !.calls[c].pc = IF st.calls[c].attached THEN "done" ELSE "result",
               !.calls[c].exc = e,
               !.calls[c].attempts = 0,
               !.calls[c].caller_saw =
                   IF st.calls[c].kind = "entity" THEN @ ELSE e]

(***************************************************************************)
(* RateLimiter / TokenBucket (specification section 4.1; not in src).      *)
(***************************************************************************)
HasBucket(b, id) == id \in DOMAIN b
CanConsume(b, id, n) == b[id] >= n
Consume(b, id, n) == [b EXCEPT ![id] = @ - n]
\* one refill interval has elapsed
Refresh(tokens) == Min(tokens + RefillAmount, Capacity)
AddSocket(b, id, limit) == Without(b, id) @@ (id :> limit)
RemoveSocket(b, id) == Without(b, id)

(***************************************************************************)
(* RustWebsocket (specification sections 4.2, 4.3; not in src).            *)
(***************************************************************************)
\* the transport takes an envelope; at most MaxDup unanswered copies are kept
Transmit(w, e) ==
    IF e \in DOMAIN w THEN [w EXCEPT ![e] = Min(@ + 1, MaxDup)] ELSE w @@ (e :> 1)

Answered(w, e) ==
    IF w[e] > 1 THEN [w EXCEPT ![e] = @ - 1] ELSE Without(w, e)

\* RustWebsocket.send_message: fail fast unless CONNECTED, register the
\* pending call, transmit
HandToTransport(st, c) ==
    [st EXCEPT !.pending_for_response = @ \cup {st.calls[c].seq},
               !.wire = Transmit(@, Envelope(st.calls[c])),
               !.calls[c].late = @ \/ st.calls[c].closed,
               !.hist.leak = @ \/ st.ws # "connected"]

WsSendMessage(st, c) ==
    IF st.ws # "connected"
    THEN Raise(st, c, "ClientNotConnectedError")
    ELSE HandToTransport(st, c)

\* RustWebsocket.error_present
ErrorPresent(error) == error # ""

\* RustWebsocket.get_proto_cost
ProtoCost(k) == Amount

(***************************************************************************)
(* BaseRustSocket._generate_protobuf                                       *)
(***************************************************************************)
\* history: the sequence number stamped on the envelope of call c is issued
Issued(st, c) == [st EXCEPT !.hist.issued = Append(@, st.calls[c].seq)]

\* a _generate_protobuf that stamps the envelope and leaves self.seq as it is
GenerateProtobufKeepsSeq(st, c) ==
    Issued([st EXCEPT !.calls[c].seq = st.seq,
                      !.calls[c].id = st.server_id], c)

GenerateProtobuf(st, c) ==
    Issued([st EXCEPT !.calls[c].seq = st.seq,
                      !.calls[c].id = st.server_id,
                      !.seq = st.seq + 1], c)

(***************************************************************************)
(* RustRemote.send_message                                                 *)
(***************************************************************************)
\* a send_message that uses the transport it last had when self.ws is None
RemoteSendMessageStale(st, c) ==
    LET s0 == [st EXCEPT !.calls[c].refused = @ \/ st.ws # "connected"] IN
    IF s0.ws = "none"
    THEN HandToTransport(s0, c)
    ELSE WsSendMessage(s0, c)

RemoteSendMessage(st, c) ==
    LET s0 == [st EXCEPT !.calls[c].refused = @ \/ st.ws # "connected"] IN
    IF s0.ws = "none"
    THEN Raise(s0, c, "ClientNotConnectedError")
    ELSE WsSendMessage(s0, c)

(***************************************************************************)
(* EntityEvent.handlers (specification section 6, ListenerRegistries; not  *)
(* in src): register(listener, identity), unregister_all().                *)
(***************************************************************************)
Register(h, listener) == h \cup {listener}
UnregisterAll(h) == {}

\* the team, chat and protobuf registries hold (listener, identity) pairs;
\* has and unregister look the pair up
Has(h, l, id) == [l |-> l, id |-> id] \in h
Unregister(h, l, id) == h \ {[l |-> l, id |-> id]}

\* a RegisteredListener is (listener_id, coroutine); a coroutine f is << f >>
\* and the entity registry's (coroutine, entity type) pair is << f, type >>.
\* An object that is no RegisteredListener has the listener_id "none".
RegisteredListener(listener_id, coro) == [listener_id |-> listener_id, coro |-> coro]
IsRegisteredListener(l) == l.listener_id # "none"

\* history: remove_listener(l) returned b
Returned(l, b) == [l |-> l, returned |-> b]

\* the listener that entity_event_callback registered as entry e of
\* EntityEvent.handlers (lines 217-222), for the coroutine EntityCoro
EntityListener(e) == RegisteredListener(ToString(e.eid), << EntityCoro, e.type >>)
HasEntity(h, l, id) == \E e \in h : e.id = id /\ EntityListener(e) = l
UnregisterEntity(h, l, id) == {e \in h : ~(e.id = id /\ EntityListener(e) = l)}

\* MapEventListener (not in src): add_listener, remove_listener on its
\* list of listeners; remove_listener returns whether it removed one
NoListeners == [marker |-> {}, chat |-> {}, team |-> {}, protobuf |-> {}]

(***************************************************************************)
(* RustRemote.handle_subscribing_entity.entity_event_callback, the done    *)
(* callback of the scheduled get_entity_info future, for the result r.     *)
(* It is run by the future, not by the requester of the subscription: what *)
(* it raises is logged by the future and reaches no caller.                *)
(***************************************************************************)
EntityEventCallback(st, c, r) ==
    LET k == st.calls[c] IN
    IF r.error # ""
    THEN [st EXCEPT !.calls[c].pc = "done", !.calls[c].attempts = 0,
                    !.calls[c].exc = "SmartDeviceRegistrationError"]
    ELSE [st EXCEPT !.calls[c].pc = "done", !.calls[c].attempts = 0,
                    !.handlers = Register(@, [eid |-> k.arg, type |-> r.info,
                                              id |-> st.server_id, ep |-> k.ep])]

\* create_camera_manager, lines 254-257, with the reply r of its get_response
\* (history: cam_ep is the endpoint generation the subscribe was made in)
InstallCameraManager(st, c, r) ==
    [st EXCEPT !.calls[c].pc = "done", !.calls[c].attempts = 0,
               !.calls[c].caller_saw = "returned",
               !.camera_manager = st.calls[c].arg,
               !.hist.cam_ep = st.calls[c].ep]

\* `return response` of the outermost get_response of call c
Return(st, c, r) ==
    IF st.calls[c].kind # "entity"
    THEN InstallCameraManager(st, c, r)
    ELSE IF st.calls[c].attached
    THEN EntityEventCallback([st EXCEPT !.calls[c].ran_on = "loop"], c, r)
    ELSE [st EXCEPT !.calls[c].pc = "result", !.calls[c].attempts = 0]

(***************************************************************************)
(* RustRemote.get_response.  The recursive call of line 183 returns its    *)
(* result unchanged through line 188, so the recursion is the same         *)
(* coroutine going round again with error_check at its default, True.      *)
(***************************************************************************)
\* lines 139-146: the second `if` of the poll loop, to its sleep
PollSecond(st, c) ==
    IF st.calls[c].attempts <= ShortPolls
    THEN [st EXCEPT !.calls[c].attempts = @ + 1, !.calls[c].pc = "poll2"]
    ELSE LET s1 == RemoteSendMessage(st, c) IN
         IF Failed(s1, c) THEN s1
         ELSE [s1 EXCEPT !.calls[c].attempts = 0, !.calls[c].pc = "poll2",
                         !.calls[c].flipped = FALSE]

\* a first `if` that resends after ShortPolls attempts
PollFirstShort(st, c) ==
    IF st.calls[c].attempts <= ShortPolls
    THEN [st EXCEPT !.calls[c].attempts = @ + 1, !.calls[c].pc = "poll1"]
    ELSE LET s1 == RemoteSendMessage(st, c) IN
         IF Failed(s1, c) THEN s1
         ELSE [s1 EXCEPT !.calls[c].attempts = 0, !.calls[c].pc = "poll1",
                         !.calls[c].flipped = FALSE]

\* lines 126-137: the first `if` of the poll loop, to its sleep
PollFirst(st, c) ==
    IF st.calls[c].attempts <= SentPolls
    THEN [st EXCEPT !.calls[c].attempts = @ + 1, !.calls[c].pc = "poll1"]
    ELSE LET s1 == RemoteSendMessage(st, c) IN
         IF Failed(s1, c) THEN s1
         ELSE [s1 EXCEPT !.calls[c].attempts = 0, !.calls[c].pc = "poll1",
                         !.calls[c].flipped = FALSE]

\* lines 172-183: the recovery's admission loop, the resend and the recursion
RECURSIVE PollLoop(_, _)
ReadmitLoop(st, c) ==
    LET k == st.calls[c] IN
    IF ~HasBucket(st.socket_buckets, st.server_id)
    THEN Raise(st, c, "UnknownIdentity")
    ELSE IF CanConsume(st.socket_buckets, st.server_id, ProtoCost(k))
    THEN LET s1 == [st EXCEPT !.socket_buckets =
                                  Consume(@, st.server_id, ProtoCost(k))]
             s2 == RemoteSendMessage(s1, c)
         IN  IF Failed(s2, c) THEN s2
             ELSE PollLoop([s2 EXCEPT !.calls[c].rtx = Count(@),
                                      !.calls[c].atx = Count(@),
                                      !.calls[c].attempts = 0,
                                      !.calls[c].flipped = FALSE,
                                      !.calls[c].error_check = TRUE], c)
    ELSE [st EXCEPT !.calls[c].pc = "readmit"]

\* lines 169-170: cost = self.ws.get_proto_cost(app_request)
Readmit(st, c) ==
    IF st.ws = "none"
    THEN Raise(st, c, "AttributeError")
    ELSE ReadmitLoop(st, c)

\* a refill loop that ends as soon as the bucket can pay for one request
RefillLoopUntilAffordable(st, c) ==
    IF ~HasBucket(st.socket_buckets, st.server_id)
    THEN Raise(st, c, "AttributeError")
    ELSE IF st.socket_buckets[st.server_id] < ProtoCost(st.calls[c])
    THEN [st EXCEPT !.calls[c].pc = "refill"]
    ELSE Readmit(st, c)

\* lines 162-167: the test of the refill loop
RefillLoop(st, c) ==
    IF ~HasBucket(st.socket_buckets, st.server_id)
    THEN Raise(st, c, "AttributeError")
    ELSE IF st.socket_buckets[st.server_id] < Capacity
    THEN [st EXCEPT !.calls[c].pc = "refill"]
    ELSE Readmit(st, c)

\* lines 153-160: a rate_limit reply was taken
RateLimited(st, c) ==
    IF ~HasBucket(st.socket_buckets, st.server_id)
    THEN Raise(st, c, "AttributeError")
    ELSE RefillLoop([st EXCEPT !.socket_buckets[st.server_id] = 0], c)

\* lines 151-188: the reply recorded under `key` is popped and acted on
TakeResponseAt(st, c, key) ==
    LET k  == st.calls[c]
        r  == st.responses[key]
        s1 == [st EXCEPT !.responses = Without(@, key),
                         !.calls[c].took = r]
    IN  IF r.error = "rate_limit"
        THEN RateLimited([s1 EXCEPT !.calls[c].rl = Count(@)], c)
        ELSE IF s1.ws = "none"
        THEN Raise(s1, c, "AttributeError")
        ELSE IF ErrorPresent(r.error) /\ k.error_check
        THEN Raise(s1, c, "RequestError")
        ELSE Return(s1, c, r)

\* a get_response that takes the recorded reply with the lowest key
TakeLowestResponse(st, c) ==
    IF DOMAIN st.responses = {}
    THEN Raise(st, c, "ResponseNotReceivedError")
    ELSE TakeResponseAt(st, c, CHOOSE s \in DOMAIN st.responses :
                                  \A t \in DOMAIN st.responses : s <= t)

\* lines 148-188: after the poll loop
TakeResponse(st, c) ==
    IF st.calls[c].seq \notin DOMAIN st.responses
    THEN Raise(st, c, "ResponseNotReceivedError")
    ELSE TakeResponseAt(st, c, st.calls[c].seq)

\* line 124: the test of the poll loop
PollLoop(st, c) ==
    LET k == st.calls[c] IN
    IF k.seq \in st.pending_for_response /\ k.seq \notin DOMAIN st.responses
    THEN IF k.seq \in st.sent_requests
         THEN PollFirst(st, c)
         ELSE PollSecond(st, c)
    ELSE TakeResponse(st, c)

\* get_response(seq, app_request, error_check), from its first line
GetResponse(st, c, error_check) ==
    PollLoop([st EXCEPT !.calls[c].attempts = 0,
                        !.calls[c].error_check = error_check], c)

(***************************************************************************)
(* BaseRustSocket._handle_ratelimit, one turn of its loop.  It leaves the  *)
(* call admitted (tokens consumed), asleep (pc admit) or raised.           *)
(* can_consume of an identity without a bucket is the limiter's            *)
(* unknown-identity error.                                                 *)
(***************************************************************************)
\* a _handle_ratelimit that consumes without asking can_consume
HandleRatelimitConsumes(st, c) ==
    IF ~HasBucket(st.socket_buckets, st.server_id)
    THEN Raise(st, c, "UnknownIdentity")
    ELSE [st EXCEPT !.socket_buckets = Consume(@, st.server_id, Amount),
                    !.calls[c].beats = @ + 1,
                    !.calls[c].pc = "admitted"]

\* a _handle_ratelimit that raises when tokens are short, however configured
HandleRatelimitRaises(st, c) ==
    IF ~HasBucket(st.socket_buckets, st.server_id)
    THEN Raise(st, c, "UnknownIdentity")
    ELSE IF CanConsume(st.socket_buckets, st.server_id, Amount)
    THEN [st EXCEPT !.socket_buckets = Consume(@, st.server_id, Amount),
                    !.calls[c].beats = @ + 1,
                    !.calls[c].pc = "admitted"]
    ELSE Raise(st, c, "RateLimitError")

HandleRatelimit(st, c) ==
    IF ~HasBucket(st.socket_buckets, st.server_id)
    THEN Raise(st, c, "UnknownIdentity")
    ELSE IF CanConsume(st.socket_buckets, st.server_id, Amount)
    THEN [st EXCEPT !.socket_buckets = Consume(@, st.server_id, Amount),
                    !.calls[c].beats = @ + 1,
                    !.calls[c].pc = "admitted"]
    ELSE IF st.raise_ratelimit_exception
    THEN Raise(st, c, "RateLimitError")
    ELSE [st EXCEPT !.calls[c].pc = "admit"]

\* history: the envelope of call c was handed to the transport after a
\* consume that paid for it
AdmittedSend(st, c) == [st EXCEPT !.calls[c].atx = Count(@)]

\* send_wakeup_request, lines 172-177
WakeupBody(st, c) ==
    LET s1 == GenerateProtobuf(st, c)
        s2 == [s1 EXCEPT !.ignored_responses = Append(@, s1.calls[c].seq)]
        s3 == RemoteSendMessage(s2, c)
    IN  IF Failed(s3, c) THEN s3
        ELSE [AdmittedSend(s3, c) EXCEPT !.calls[c].pc = "done",
                                         !.calls[c].caller_saw = "returned"]

\* the first entity-info query of a replayed subscription is counted on its
\* queue entry (history)
CountQuery(st, c) ==
    LET k == st.calls[c] IN
    IF k.qi # 0 /\ k.ep = st.hist.epoch
       /\ k.qi <= Len(st.pending_entity_subscriptions)
    THEN [st EXCEPT !.pending_entity_subscriptions[k.qi].q = Min(@ + 1, 2)]
    ELSE st

\* get_entity_info, lines 200-206
EntityInfoBody(st, c) ==
    LET s1 == GenerateProtobuf(st, c)
        s2 == RemoteSendMessage(s1, c)
    IN  IF Failed(s2, c) THEN s2
        ELSE GetResponse(CountQuery(AdmittedSend(s2, c), c), c, FALSE)

\* subscribe_to_camera, lines 233-243 (ignore_response False), and
\* create_camera_manager, line 252
CameraBody(st, c) ==
    LET s1 == GenerateProtobuf(st, c)
        s2 == RemoteSendMessage(s1, c)
    IN  IF Failed(s2, c) THEN s2
        ELSE GetResponse(AdmittedSend(s2, c), c, TRUE)

\* a call from `await self._handle_ratelimit()` to its next suspension
Admission(st, c) ==
    LET s1 == HandleRatelimit(st, c) IN
    IF s1.calls[c].pc # "admitted" THEN s1
    ELSE CASE s1.calls[c].kind = "wakeup" -> WakeupBody(s1, c)
           [] s1.calls[c].kind = "entity" -> EntityInfoBody(s1, c)
           [] OTHER -> CameraBody(s1, c)

(***************************************************************************)
(* RustRemote.handle_subscribing_entity(entity_id, coroutine), for the     *)
(* request of epoch ep that is entry qi of the queue (0: a direct          *)
(* request).  The decorator that called it returns a RegisteredListener    *)
(* at once in both branches.                                               *)
(***************************************************************************)
LowestFree(st) == CHOOSE c \in FreeCalls(st) : \A d \in FreeCalls(st) : c <= d

HandleSubscribingEntity(st, eid, ep, qi) ==
    IF st.ws # "connected"
    THEN [st EXCEPT !.pending_entity_subscriptions =
                        Append(@, [eid |-> eid, ep |-> ep, q |-> 0])]
    ELSE [st EXCEPT !.calls[LowestFree(st)] =
                        [NewCall(st, "entity", eid, qi)
                             EXCEPT !.ep = ep, !.caller_saw = "returned"]]

\* handle_subscribing_entity run by a thread that is not the event loop's, to
\* run_coroutine_threadsafe (lines 190-226): the coroutine is scheduled, the
\* done callback not attached yet
ScheduleFromThread(st, eid, ep) ==
    LET s1 == HandleSubscribingEntity(st, eid, ep, 0) IN
    IF st.ws # "connected" THEN s1
    ELSE [s1 EXCEPT !.calls[LowestFree(st)].attached = FALSE]

\* future.add_done_callback(entity_event_callback), line 227, run by that
\* thread: a future that is done already runs the callback at once, in the
\* thread that adds it (concurrent.futures.Future.add_done_callback); what
\* the callback raises there is logged.  k.took is the future's result.
AddDoneCallback(st, c) ==
    LET k == st.calls[c] IN
    IF k.pc # "result"
    THEN [st EXCEPT !.calls[c].attached = TRUE]
    ELSE IF k.exc # ""
    THEN [st EXCEPT !.calls[c].attached = TRUE, !.calls[c].pc = "done",
                    !.calls[c].ran_on = "requester"]
    ELSE EntityEventCallback([st EXCEPT !.calls[c].attached = TRUE,
                                        !.calls[c].ran_on = "requester"],
                             c, k.took)

\* RustRemote.connect, lines 88-89: the queue is replayed from entry i on
RECURSIVE Replay(_, _)
Replay(st, i) ==
    IF i > Len(st.pending_entity_subscriptions) THEN st
    ELSE LET e == st.pending_entity_subscriptions[i] IN
         Replay(HandleSubscribingEntity(st, e.eid, e.ep, i), i + 1)

(***************************************************************************)
(* RustRemote.close and BaseRustSocket.switch_server                       *)
(***************************************************************************)
\* history: the calls asleep in the poll loop when the connection is closed
ClosedWhilePolling(cs) ==
    [c \in DOMAIN cs |-> IF cs[c].pc \in {"poll1", "poll2"}
                         THEN [cs[c] EXCEPT !.closed = TRUE]
                         ELSE cs[c]]

\* a close that also drops the calls waiting for a reply
CloseDropsPending(st) ==
    IF st.ws = "none" THEN st
    ELSE [st EXCEPT !.ws = "none", !.wire = << >>,
                    !.pending_for_response = {},
                    !.calls = ClosedWhilePolling(@)]

\* RustRemote.close: the websocket is closed and dropped; what the transport
\* held unanswered is gone with it
Close(st) ==
    IF st.ws = "none" THEN st
    ELSE [st EXCEPT !.ws = "none", !.wire = << >>,
                    !.calls = ClosedWhilePolling(@)]

\* switch_server, lines 240-253, reached with the new identity in place
SwitchLimiter(st) ==
    IF ~HasBucket(st.socket_buckets, st.server_id)
    THEN [st EXCEPT !.hist.last_switch = "UnknownIdentity"]
    ELSE [st EXCEPT !.socket_buckets =
                        AddSocket(RemoveSocket(@, st.server_id), st.server_id, Capacity),
                    !.handlers = UnregisterAll(@),
                    !.hist.last_switch = "returned"]

\* BaseRustSocket.connect as switch_server's last line calls it: remote.ws is
\* None after the close, so RustRemote.connect creates the websocket
SwitchConnect(st) ==
    IF st.hist.last_switch # "returned" THEN st
    ELSE [st EXCEPT !.ws = "pending", !.connecting = TRUE,
                    !.hist.nconn = @ + 1,
                    !.hist.connect_returned = "",
                    !.hist.last_switch = "connecting"]

\* a switch_server that disconnects before it looks at its arguments
SwitchServerClosesFirst(st, id, valid, raise_rl, connect) ==
    LET s0 == Close(st) IN
    IF s0.use_test_server
    THEN [s0 EXCEPT !.hist.last_switch = "ServerSwitchDisallowedError"]
    ELSE IF ~valid
    THEN [s0 EXCEPT !.hist.last_switch = "ValueError"]
    ELSE LET s2 == [s0 EXCEPT !.server_id = id,
                              !.seq = FirstSeq,
                              !.raise_ratelimit_exception = raise_rl,
                              !.pending_entity_subscriptions = << >>,
                              !.hist.issued = << >>,
                              !.hist.epoch = @ + 1]
             s3 == SwitchLimiter(s2)
         IN  IF connect THEN SwitchConnect(s3) ELSE s3

\* switch_server(ip, port, steam_id, player_token, raise_ratelimit_exception,
\* connect): `valid` is false when one of the four identity arguments is None
SwitchServer(st, id, valid, raise_rl, connect) ==
    IF st.use_test_server
    THEN [st EXCEPT !.hist.last_switch = "ServerSwitchDisallowedError"]
    ELSE IF ~valid
    THEN [st EXCEPT !.hist.last_switch = "ValueError"]
    ELSE LET s1 == Close(st)
             s2 == [s1 EXCEPT !.server_id = id,
                              !.seq = FirstSeq,
                              !.raise_ratelimit_exception = raise_rl,
                              !.pending_entity_subscriptions = << >>,
                              !.hist.issued = << >>,
                              !.hist.epoch = @ + 1]
             s3 == SwitchLimiter(s2)
         IN  IF connect THEN SwitchConnect(s3) ELSE s3

(***************************************************************************)
(* BaseRustSocket.connect, lines 137-146, to its first suspension.         *)
(* hist.connect_returned is the state of the websocket when the last       *)
(* connect() returned without raising ("" while none has).                 *)
(***************************************************************************)
BaseConnect(st) ==
    IF st.ws = "none"
    THEN [st EXCEPT !.ws = "pending", !.connecting = TRUE,
                    !.hist.nconn = @ + 1,
                    !.hist.connect_returned = ""]
    ELSE [st EXCEPT !.hist.connect_returned = st.ws]

(***************************************************************************)
(* Initial state: the client as BaseRustSocket.__init__ and                *)
(* RustRemote.__init__ leave it, for identity 1.                           *)
(***************************************************************************)
Init ==
    /\ server_id = 1
    /\ seq = FirstSeq
    /\ raise_ratelimit_exception \in BOOLEAN
    /\ use_test_server \in BOOLEAN
    /\ socket_buckets = AddSocket(<< >>, 1, Capacity)
    /\ ws = "none"
    /\ connecting = FALSE
    /\ wire = << >>
    /\ pending_for_response = {}
    /\ responses = << >>
    /\ ignored_responses = << >>
    /\ sent_requests = {}
    /\ pending_entity_subscriptions = << >>
    /\ handlers = {}
    /\ registries = NoListeners
    /\ camera_manager = 0
    /\ calls = [c \in Calls |-> IdleCall]
    /\ last = IdleCall
    /\ hist = [issued |-> << >>, epoch |-> 0, nrl |-> 0, nconn |-> 0,
               leak |-> FALSE, last_switch |-> "none",
               removed |-> Returned(RegisteredListener("none", << >>), FALSE),
               connect_returned |-> "", cam_ep |-> 0]

(***************************************************************************)
(* BaseRustSocket.team_event, chat_event, marker_event, protobuf_received  *)
(* (lines 303-392) for the coroutine f, and remove_listener (lines         *)
(* 394-420).  hist.removed is what the last remove_listener returned.      *)
(***************************************************************************)
TeamEventListener(st, f) ==
    [st EXCEPT !.registries.team =
                   Register(@, [l |-> RegisteredListener("team_changed", << f >>),
                                id |-> st.server_id])]

ChatEventListener(st, f) ==
    [st EXCEPT !.registries.chat =
                   Register(@, [l |-> RegisteredListener("chat_message", << f >>),
                                id |-> st.server_id])]

MarkerEventListener(st, f) ==
    [st EXCEPT !.registries.marker =
                   @ \cup {RegisteredListener("map_marker", << f >>)}]

ProtobufReceivedListener(st, f) ==
    [st EXCEPT !.registries.protobuf =
                   Register(@, [l |-> RegisteredListener("protobuf_received", << f >>),
                                id |-> st.server_id])]

\* MapEventListener.remove_listener
MarkerRemoveListener(st, l) ==
    IF l \in st.registries.marker
    THEN [st EXCEPT !.registries.marker = @ \ {l}, !.hist.removed = Returned(l, TRUE)]
    ELSE [st EXCEPT !.hist.removed = Returned(l, FALSE)]

\* a remove_listener that does not look in the entity registry
RemoveListenerNoEntity(st, l) ==
    IF ~IsRegisteredListener(l)
    THEN [st EXCEPT !.hist.removed = Returned(l, FALSE)]
    ELSE IF l.listener_id = "map_marker"
    THEN MarkerRemoveListener(st, l)
    ELSE IF Has(st.registries.chat, l, st.server_id)
    THEN [st EXCEPT !.registries.chat = Unregister(@, l, st.server_id),
                    !.hist.removed = Returned(l, TRUE)]
    ELSE IF Has(st.registries.team, l, st.server_id)
    THEN [st EXCEPT !.registries.team = Unregister(@, l, st.server_id),
                    !.hist.removed = Returned(l, TRUE)]
    ELSE IF Has(st.registries.protobuf, l, st.server_id)
    THEN [st EXCEPT !.registries.protobuf = Unregister(@, l, st.server_id),
                    !.hist.removed = Returned(l, TRUE)]
    ELSE [st EXCEPT !.hist.removed = Returned(l, FALSE)]

RemoveListener(st, l) ==
    IF ~IsRegisteredListener(l)
    THEN [st EXCEPT !.hist.removed = Returned(l, FALSE)]
    ELSE IF l.listener_id = "map_marker"
    THEN MarkerRemoveListener(st, l)
    ELSE IF Has(st.registries.chat, l, st.server_id)
    THEN [st EXCEPT !.registries.chat = Unregister(@, l, st.server_id),
                    !.hist.removed = Returned(l, TRUE)]
    ELSE IF Has(st.registries.team, l, st.server_id)
    THEN [st EXCEPT !.registries.team = Unregister(@, l, st.server_id),
                    !.hist.removed = Returned(l, TRUE)]
    ELSE IF HasEntity(st.handlers, l, st.server_id)
    THEN [st EXCEPT !.handlers = UnregisterEntity(@, l, st.server_id),
                    !.hist.removed = Returned(l, TRUE)]
    ELSE IF Has(st.registries.protobuf, l, st.server_id)
    THEN [st EXCEPT !.registries.protobuf = Unregister(@, l, st.server_id),
                    !.hist.removed = Returned(l, TRUE)]
    ELSE [st EXCEPT !.hist.removed = Returned(l, FALSE)]

\* what callers pass to remove_listener: the listeners the decorators
\* return, the listeners the entity registry holds, and a bare coroutine
Listeners ==
    {RegisteredListener(n, << f >>) :
        n \in {"map_marker", "chat_message", "team_changed", "protobuf_received"},
        f \in Coros}
    \cup {RegisteredListener(ToString(e), << EntityCoro >>) : e \in Entities}
    \cup {RegisteredListener(ToString(e), << EntityCoro, t >>) :
              e \in Entities, t \in Entities}
    \cup {RegisteredListener("none", << f >>) : f \in Coros}

\* the client after a first connect on an empty queue: it is reached from
\* Init by Connect and ConnectOk
InitConnected ==
    /\ server_id = 1
    /\ seq = FirstSeq
    /\ raise_ratelimit_exception \in BOOLEAN
    /\ use_test_server = FALSE
    /\ socket_buckets = AddSocket(<< >>, 1, Capacity)
    /\ ws = "connected"
    /\ connecting = FALSE
    /\ wire = << >>
    /\ pending_for_response = {}
    /\ responses = << >>
    /\ ignored_responses = << >>
    /\ sent_requests = {}
    /\ pending_entity_subscriptions = << >>
    /\ handlers = {}
    /\ registries = NoListeners
    /\ camera_manager = 0
    /\ calls = [c \in Calls |-> IdleCall]
    /\ last = IdleCall
    /\ hist = [issued |-> << >>, epoch |-> 0, nrl |-> 0, nconn |-> 1,
               leak |-> FALSE, last_switch |-> "none",
               removed |-> Returned(RegisteredListener("none", << >>), FALSE),
               connect_returned |-> "connected", cam_ep |-> 0]

\* a new call may start: a slot is free and a sequence number is left for it
CanStart(st, n) ==
    /\ Cardinality(FreeCalls(st)) >= n
    /\ st.seq + Cardinality(Waiting(st)) + n <= MaxSeq + 1

(***************************************************************************)
(* Actions of the callers.                                                 *)
(***************************************************************************)
\* @api.team_event / chat_event / marker_event / protobuf_received
TeamEvent(f) == Install(TeamEventListener(Cur, f))
ChatEvent(f) == Install(ChatEventListener(Cur, f))
MarkerEvent(f) == Install(MarkerEventListener(Cur, f))
ProtobufReceived(f) == Install(ProtobufReceivedListener(Cur, f))

\* api.remove_listener(l)
RemoveListenerCall(l) == Install(RemoveListener(Cur, l))

\* await api.send_wakeup_request()
SendWakeupRequest ==
    /\ CanStart(Cur, 1)
    /\ LET c == LowestFree(Cur)
           s0 == [Cur EXCEPT !.calls[c] = NewCall(Cur, "wakeup", 0, 0)]
       IN Install(Admission(s0, c))

\* a create_camera_manager that subscribes whatever session it holds
CreateCameraManagerAnew(cam) ==
    /\ CanStart(Cur, 1)
    /\ LET c == LowestFree(Cur)
           s0 == [Cur EXCEPT !.calls[c] = NewCall(Cur, "camera", cam, 0)]
       IN Install(Admission(s0, c))

\* await remote.create_camera_manager(cam_id)
CreateCameraManager(cam) ==
    /\ IF camera_manager = cam THEN FreeCalls(Cur) # {} ELSE CanStart(Cur, 1)
    /\ LET c == LowestFree(Cur)
           s0 == [Cur EXCEPT !.calls[c] = NewCall(Cur, "camera", cam, 0)]
       IN IF Cur.camera_manager = cam
          THEN Install([s0 EXCEPT !.calls[c].pc = "done",
                                  !.calls[c].caller_saw = "returned"])
          ELSE Install(Admission(s0, c))

\* @api.entity_event(eid) applied to a coroutine
EntityEvent(eid) ==
    /\ IF ws = "connected" THEN CanStart(Cur, 1)
       ELSE Len(pending_entity_subscriptions) < MaxQueue
    /\ Install(HandleSubscribingEntity(Cur, eid, hist.epoch, 0))

\* @api.entity_event(eid) applied by a thread other than the event loop's:
\* first the coroutine is scheduled on the loop, then the thread attaches
\* the done callback
EntityEventFromThread(eid) ==
    /\ IF ws = "connected" THEN CanStart(Cur, 1)
       ELSE Len(pending_entity_subscriptions) < MaxQueue
    /\ Install(ScheduleFromThread(Cur, eid, hist.epoch))

AttachCallback(c) ==
    /\ calls[c].pc # "idle"
    /\ ~calls[c].attached
    /\ Install(AddDoneCallback(Cur, c))

\* await api.connect(), lines 137-146: with remote.ws None RustRemote.connect
\* creates the websocket and awaits its connect; with a websocket in
\* remote.ws, whatever its state, connect returns at once
Connect ==
    /\ ws = "none" => ~connecting /\ hist.nconn < MaxConnects
    /\ Install(BaseConnect(Cur))

\* await api.close_connection() / api.disconnect()
CloseConnection ==
    /\ ws # "none"
    /\ Install(Close(Cur))

\* await api.switch_server(...)
Switch(id, valid, raise_rl, connect) ==
    /\ hist.epoch < MaxSwitches
    /\ connect => (~connecting /\ hist.nconn < MaxConnects)
    /\ Install(SwitchServer(Cur, id, valid, raise_rl, connect))

(***************************************************************************)
(* Actions of the event loop: a suspended coroutine is resumed.            *)
(***************************************************************************)
\* the scheduled get_entity_info coroutine starts
Start(c) ==
    /\ calls[c].pc = "start"
    /\ Install(Admission(Cur, c))

\* the sleep of an admission loop ends
AdmissionWake(c) ==
    /\ calls[c].pc \in {"admit", "readmit"}
    /\ IF calls[c].pc = "admit"
       THEN Install(Admission(Cur, c))
       ELSE Install(ReadmitLoop(Cur, c))

\* a sleep of the poll loop ends
PollWake(c) ==
    /\ calls[c].pc \in {"poll1", "poll2"}
    /\ IF calls[c].pc = "poll1"
       THEN Install(PollSecond(Cur, c))
       ELSE Install(PollLoop(Cur, c))

\* the one-second sleep of the refill loop ends: refresh(), then the test
RefillWake(c) ==
    /\ calls[c].pc = "refill"
    /\ IF ~HasBucket(socket_buckets, server_id)
       THEN Install(Raise(Cur, c, "AttributeError"))
       ELSE Install(RefillLoop([Cur EXCEPT !.socket_buckets[server_id] = Refresh(@)], c))

\* ws.connect succeeds: RustRemote.connect goes on to replay the queue
ConnectOk ==
    /\ connecting
    /\ ws = "pending"
    /\ CanStart(Cur, Len(pending_entity_subscriptions))
    /\ LET s1 == [Cur EXCEPT !.ws = "connected", !.connecting = FALSE,
                             !.hist.connect_returned = "connected",
                             !.hist.last_switch =
                                 IF @ = "connecting" THEN "returned" ELSE @]
       IN Install(Replay(s1, 1))

\* ws.connect gives up (refused, retries exhausted, or closed meanwhile) and
\* raises; the websocket object stays in RustRemote.ws, disconnected
ConnectFail ==
    /\ connecting
    /\ Install([Cur EXCEPT !.ws = IF @ = "pending" THEN "closed" ELSE @,
                           !.connecting = FALSE,
                           !.hist.last_switch =
                               IF @ = "connecting" THEN "ServerNotResponsiveError" ELSE @])

(***************************************************************************)
(* Actions of the environment.                                             *)
(***************************************************************************)
\* the transport fails: the websocket is disconnected, RustRemote.ws stays
TransportFailure ==
    /\ ws = "connected"
    /\ Install([Cur EXCEPT !.ws = "closed", !.wire = << >>])

RemoveFirst(s, x) ==
    LET i == CHOOSE j \in 1..Len(s) : s[j] = x /\ \A l \in 1..(j - 1) : s[l] # x
    IN  SubSeq(s, 1, i - 1) \o SubSeq(s, i + 1, Len(s))

\* RustWebsocket's dispatch of the inbound reply r (specification 4.2)
HandleMessage(st, r) ==
    IF \E j \in 1..Len(st.ignored_responses) : st.ignored_responses[j] = r.seq
    THEN [st EXCEPT !.ignored_responses = RemoveFirst(@, r.seq),
                    !.pending_for_response = @ \ {r.seq}]
    ELSE IF r.seq \in st.pending_for_response
    THEN [st EXCEPT !.responses = Without(@, r.seq) @@ (r.seq :> r),
                    !.pending_for_response = @ \ {r.seq}]
    ELSE st

\* the server answers envelope e with the error code err
Receive(e, err) ==
    /\ ws = "connected"
    /\ e \in DOMAIN wire
    /\ err = "rate_limit" => hist.nrl < MaxRateLimits
    /\ LET r  == [seq |-> e.seq, error |-> err,
                  info |-> IF err = "" THEN e.arg ELSE 0]
           s1 == [Cur EXCEPT !.wire = Answered(@, e),
                             !.hist.nrl = IF err = "rate_limit" THEN @ + 1 ELSE @]
       IN Install(HandleMessage(s1, r))

\* the server answers envelope e with a rate_limit error, as often as it
\* likes
Throttle(e) ==
    /\ ws = "connected"
    /\ e \in DOMAIN wire
    /\ LET r  == [seq |-> e.seq, error |-> "rate_limit", info |-> 0]
           s1 == [Cur EXCEPT !.wire = Answered(@, e),
                             !.hist.nrl = Min(@ + 1, MaxRateLimits)]
       IN Install(HandleMessage(s1, r))

\* a refill interval passes
Tick ==
    /\ \E i \in DOMAIN socket_buckets : socket_buckets[i] < Capacity
    /\ Install([Cur EXCEPT !.socket_buckets =
                   [i \in DOMAIN @ |-> Refresh(@[i])]])

Next ==
    \/ SendWakeupRequest
    \/ \E cam \in Cams : CreateCameraManager(cam)
    \/ \E eid \in Entities : EntityEvent(eid)
    \/ \E eid \in Entities : EntityEventFromThread(eid)
    \/ \E c \in Calls : AttachCallback(c)
    \/ Connect
    \/ CloseConnection
    \/ \E id \in Ids, valid, raise_rl, connect \in BOOLEAN :
           Switch(id, valid, raise_rl, connect)
    \/ \E f \in Coros : TeamEvent(f)
    \/ \E f \in Coros : ChatEvent(f)
    \/ \E f \in Coros : MarkerEvent(f)
    \/ \E f \in Coros : ProtobufReceived(f)
    \/ \E l \in Listeners : RemoveListenerCall(l)
    \/ \E c \in Calls : Start(c)
    \/ \E c \in Calls : AdmissionWake(c)
    \/ \E c \in Calls : PollWake(c)
    \/ \E c \in Calls : RefillWake(c)
    \/ ConnectOk
    \/ ConnectFail
    \/ TransportFailure
    \/ \E e \in DOMAIN wire, err \in Errors : Receive(e, err)
    \/ \E e \in DOMAIN wire : Throttle(e)
    \/ Tick

Spec == Init /\ [][Next]_vars

(***************************************************************************)
(* Specifications.  Spec is the whole client.  The others are the client   *)
(* in one situation: the same actions, fewer of them, so that every        *)
(* behaviour of each is a behaviour of Spec (from a state Spec reaches).   *)
(***************************************************************************)
\* no call is in flight
Quiet == \A c \in Calls : calls[c].pc = "idle"

\* SpecSeq: the request builders, the connection and the endpoint switch;
\* a call that reached the poll loop stays asleep
NextSeq ==
    \/ SendWakeupRequest
    \/ \E cam \in Cams : CreateCameraManager(cam)
    \/ \E eid \in Entities : EntityEvent(eid)
    \/ \E c \in Calls : Start(c)
    \/ Tick
    \/ Connect
    \/ ConnectOk
    \/ CloseConnection
    \/ \E id \in Ids, valid, raise_rl, connect \in BOOLEAN :
           Switch(id, valid, raise_rl, connect)

SpecSeq == Init /\ [][NextSeq]_vars

(***************************************************************************)
(* C1: between two endpoint switches the sequence numbers stamped on       *)
(* envelopes are FirstSeq, FirstSeq + 1, ... in issue order, whichever     *)
(* request builder and whichever caller drew them, so they are strictly    *)
(* increasing and never repeated; the counter is FirstSeq plus the number  *)
(* issued since the last switch_server, which alone takes it back.         *)
(***************************************************************************)
C1_SequenceNumbers ==
    /\ seq = FirstSeq + Len(hist.issued)
    /\ \A i \in 1..Len(hist.issued) : hist.issued[i] = FirstSeq + i - 1
    /\ \A c \in Calls : calls[c].seq # 0 /\ calls[c].ep = hist.epoch
                            => calls[c].seq < seq
    /\ \A c, d \in Calls : /\ c # d
                           /\ calls[c].seq # 0 /\ calls[d].seq # 0
                           /\ calls[c].ep = hist.epoch /\ calls[d].ep = hist.epoch
                           => calls[c].seq # calls[d].seq

\* after a switch two calls of the new identity hold its first two numbers
C1_Witness ==
    /\ hist.epoch = 1
    /\ Len(hist.issued) = 2
    /\ \E c, d \in Calls : /\ calls[c].ep = 1 /\ calls[d].ep = 1
                           /\ calls[c].seq = FirstSeq /\ calls[d].seq = FirstSeq + 1

\* SpecCorr: callers on an open connection and the server answering them,
\* with rate_limit replies among the answers
NextCorr ==
    \/ \E cam \in Cams : CreateCameraManager(cam)
    \/ \E eid \in Entities : EntityEvent(eid)
    \/ \E c \in Calls : Start(c)
    \/ \E c \in Calls : AdmissionWake(c)
    \/ \E c \in Calls : PollWake(c)
    \/ \E c \in Calls : RefillWake(c)
    \/ \E e \in DOMAIN wire, err \in Errors : Receive(e, err)
    \/ Tick

SpecCorr == InitConnected /\ [][NextCorr]_vars

(***************************************************************************)
(* C2: the reply get_response takes for a call was recorded under the      *)
(* call's own sequence number and answers the call's own envelope, also    *)
(* while a reply for another outstanding number is recorded; taking it     *)
(* removes it from the recorded replies.                                   *)
(***************************************************************************)
C2_ReplyCorrelation ==
    /\ \A c \in Calls : calls[c].took # NoReply =>
           /\ calls[c].took.seq = calls[c].seq
           /\ calls[c].took.error = "" => calls[c].took.info = calls[c].arg
    /\ last.took # NoReply =>
           /\ last.took.seq = last.seq
           /\ last.took.error = "" => last.took.info = last.arg
           /\ last.seq \notin DOMAIN responses
    /\ \A c \in Calls : calls[c].pc \in {"refill", "readmit"} =>
           calls[c].seq \notin DOMAIN responses

\* a call returned with its reply while the reply of another outstanding
\* call, for another payload, was recorded and not yet taken
C2_Witness ==
    /\ last.pc = "done" /\ last.exc = ""
    /\ last.took.seq = last.seq
    /\ \E c \in Calls : /\ calls[c].pc \in {"poll1", "poll2"}
                        /\ calls[c].seq # last.seq
                        /\ calls[c].arg # last.arg
                        /\ calls[c].seq \in DOMAIN responses

\* SpecConn: awaited requests while the connection is opened, lost and
\* closed
NextConn ==
    \/ SendWakeupRequest
    \/ \E cam \in Cams : CreateCameraManager(cam)
    \/ \E c \in Calls : PollWake(c)
    \/ Tick
    \/ Connect
    \/ ConnectOk
    \/ ConnectFail
    \/ TransportFailure
    \/ CloseConnection

SpecConn == Init /\ [][NextConn]_vars

(***************************************************************************)
(* C3: a send attempted while the connection is not CONNECTED (no          *)
(* websocket yet, websocket closed, connect still in progress, connection  *)
(* lost) ends its call with ClientNotConnectedError, and no envelope is    *)
(* ever handed to the transport while the connection is not CONNECTED.     *)
(***************************************************************************)
C3_SendNeedsConnection ==
    /\ \A c \in Calls : ~calls[c].refused
    /\ last.refused => /\ last.exc = "ClientNotConnectedError"
                       /\ Envelope(last) \notin DOMAIN wire
    /\ ~hist.leak
    /\ wire # << >> => ws = "connected"

\* a request was refused while a connect attempt was still in progress
C3_Witness ==
    /\ last.refused
    /\ last.exc = "ClientNotConnectedError"
    /\ ws = "pending" /\ connecting

\* the call that is calls[c] before a step, after it: in its slot, or in
\* `last` when the step ended it
After(c) == IF calls[c].pc # "idle" /\ calls'[c].pc = "idle" THEN last' ELSE calls'[c]

\* the step in which call c takes a rate_limit reply empties the bucket of the
\* identity and puts the call to sleep in the refill loop, nothing resent
C4_TakeStep(c) ==
    After(c).rl > calls[c].rl =>
        /\ After(c).rl = calls[c].rl + 1
        /\ After(c).took.error = "rate_limit"
        /\ After(c).pc = "refill"
        /\ After(c).rtx = calls[c].rtx
        /\ socket_buckets'[server_id] = 0
        /\ wire' = wire

\* the step in which call c resends is a step of its refill loop that found
\* the bucket full and took the cost from it; the envelope is the original one
C4_ResendStep(c) ==
    After(c).rtx > calls[c].rtx =>
        /\ After(c).rtx = calls[c].rtx + 1
        /\ calls[c].pc = "refill"
        /\ Refresh(socket_buckets[server_id]) = Capacity
        /\ socket_buckets'[server_id] = Capacity - ProtoCost(calls[c])
        /\ Envelope(After(c)) = Envelope(calls[c])
        /\ Envelope(calls[c]) \in DOMAIN wire'
        /\ After(c).pc \in {"poll1", "poll2"}

\* one resend for each rate_limit reply taken, none ahead of it, and what the
\* call returns or raises is never the rate_limit reply
C4_State ==
    /\ \A c \in Calls :
           /\ calls[c].rtx <= calls[c].rl
           /\ calls[c].rl <= calls[c].rtx + 1
           /\ calls[c].pc \in {"refill", "readmit"} <=> calls[c].rl = calls[c].rtx + 1
    /\ last.pc = "done" /\ last.rl > 0 /\ last.exc = "" =>
           /\ last.rtx = last.rl
           /\ last.took.seq = last.seq
           /\ last.took.error # "rate_limit"
    /\ last.exc \in {"RequestError", "SmartDeviceRegistrationError"} =>
           last.took.error \notin {"", "rate_limit"}

(***************************************************************************)
(* C4: a call that takes a rate_limit reply sets the bucket of the         *)
(* identity to 0 and sleeps; it resends its original envelope only in a    *)
(* step that observed the bucket at full capacity and consumed the         *)
(* request's cost, once for each rate_limit reply taken; the reply it      *)
(* returns is the one taken after the resend, and the rate_limit reply is  *)
(* neither returned nor raised.                                            *)
(***************************************************************************)
C4_RateLimitRecovery ==
    /\ []C4_State
    /\ [][\A c \in Calls : C4_TakeStep(c) /\ C4_ResendStep(c)]_vars

\* a call returned the reply of its resend after a rate_limit reply, while
\* another call was in flight
C4_Witness ==
    /\ last.pc = "done" /\ last.exc = ""
    /\ last.rl = 1 /\ last.rtx = 1
    /\ last.took.error = ""
    /\ \E c \in Calls : calls[c].pc # "idle"

\* the error_check argument a call gave to get_response: get_entity_info
\* passes False (line 206), create_camera_manager leaves the default (line 252)
AskedErrorCheck(k) == k.kind # "entity"

(***************************************************************************)
(* C5: a call that gave error_check=False never ends with RequestError,    *)
(* whatever replies the server sent for its sequence number; a call that   *)
(* gave error_check=True ends with RequestError exactly when the reply it  *)
(* finally took carries an error other than rate_limit.                    *)
(***************************************************************************)
C5_ErrorCheck ==
    /\ last.pc = "done" /\ ~AskedErrorCheck(last) => last.exc # "RequestError"
    /\ last.pc = "done" /\ AskedErrorCheck(last)
       /\ last.took # NoReply /\ last.took.error # "rate_limit" =>
           (last.exc = "RequestError" <=> ErrorPresent(last.took.error))

\* the half of C5 about error_check=True
C5_Checked ==
    last.pc = "done" /\ AskedErrorCheck(last)
    /\ last.took # NoReply /\ last.took.error # "rate_limit" =>
        (last.exc = "RequestError" <=> ErrorPresent(last.took.error))

\* a call with error_check=False took a rate_limit reply, resent, took an
\* error reply and ended with RequestError
C5_Witness ==
    /\ last.pc = "done" /\ ~AskedErrorCheck(last)
    /\ last.rl = 1 /\ last.rtx = 1
    /\ last.took.error = "not_found"
    /\ last.exc = "RequestError"

(***************************************************************************)
(* C7: every registered entity listener carries the entity type of a reply *)
(* without error, and an entity-info query whose final reply carries an    *)
(* error ends with SmartDeviceRegistrationError, no listener registered    *)
(* for it.                                                                 *)
(***************************************************************************)
C7_Registration ==
    /\ \A h \in handlers : h.type = h.eid
    /\ last.pc = "done" /\ last.kind = "entity"
       /\ last.took # NoReply /\ last.took.error \notin {"", "rate_limit"} =>
           last.exc = "SmartDeviceRegistrationError"
    /\ last.pc = "done" /\ last.kind = "entity" /\ last.took.error = "" =>
           [eid |-> last.arg, type |-> last.took.info, id |-> server_id,
            ep |-> last.ep] \in handlers

\* an entity-info query was answered rate_limit, then with an error, and
\* ended with RequestError; no listener is registered
C7_Witness ==
    /\ last.pc = "done" /\ last.kind = "entity"
    /\ last.rl = 1
    /\ last.took.error = "not_found"
    /\ last.exc = "RequestError"
    /\ handlers = {}

(***************************************************************************)
(* C8: when the entity-info query of a subscription ends with an error,    *)
(* the caller that requested the subscription observes that error.         *)
(***************************************************************************)
C8_FailureReachesCaller ==
    last.pc = "done" /\ last.kind = "entity" /\ last.exc # "" =>
        last.caller_saw = last.exc

\* the query's only reply carried an error: SmartDeviceRegistrationError was
\* raised in the done callback, and the requester had been handed a listener
C8_Witness ==
    /\ last.pc = "done" /\ last.kind = "entity"
    /\ last.rl = 0
    /\ last.took.error = "not_found"
    /\ last.exc = "SmartDeviceRegistrationError"
    /\ last.caller_saw = "returned"

\* SpecReplay: subscriptions requested around connect and close on one
\* identity
NextReplay ==
    \/ \E eid \in Entities : EntityEvent(eid)
    \/ \E c \in Calls : Start(c)
    \/ \E c \in Calls : PollWake(c)
    \/ Tick
    \/ Connect
    \/ ConnectOk
    \/ CloseConnection

SpecReplay == Init /\ [][NextReplay]_vars

(***************************************************************************)
(* C6: a subscription requested while the connection is not CONNECTED is   *)
(* queued with nothing sent for it, and over all later connects and closes *)
(* on the identity at most one entity-info query is sent for a queue       *)
(* entry.                                                                  *)
(***************************************************************************)
C6_ReplayedOnce ==
    /\ hist.nconn = 0 => wire = << >> /\ hist.issued = << >>
    /\ \A i \in 1..Len(pending_entity_subscriptions) :
           pending_entity_subscriptions[i].q <= 1

\* after a connect, a close and a second connect, the entity-info query of
\* one queue entry has been sent twice
C6_Witness ==
    /\ hist.nconn = 2
    /\ ws = "connected"
    /\ Len(pending_entity_subscriptions) = 1
    /\ pending_entity_subscriptions[1].q = 2
    /\ Len(hist.issued) = 2

\* a subscription is requested while no other call is in flight
EntityEventAlone(eid) ==
    /\ Quiet
    /\ EntityEvent(eid)

\* SpecSwitch: one subscription at a time on an open connection, the server
\* answering, and an endpoint switch that may reconnect
NextSwitch ==
    \/ \E eid \in Entities : EntityEventAlone(eid)
    \/ \E c \in Calls : Start(c)
    \/ \E c \in Calls : PollWake(c)
    \/ \E e \in DOMAIN wire, err \in Errors : Receive(e, err)
    \/ Tick
    \/ ConnectOk
    \/ ConnectFail
    \/ \E id \in Ids, valid, raise_rl, connect \in BOOLEAN :
           Switch(id, valid, raise_rl, connect)

SpecSwitch == InitConnected /\ [][NextSwitch]_vars

(***************************************************************************)
(* C9: once switch_server has returned, the pending-subscription queue     *)
(* holds no entry and the entity listener registry no listener of a        *)
(* subscription requested before the switch, whether it was registered,    *)
(* queued or had its entity-info query in flight at the switch.            *)
(***************************************************************************)
C9_SwitchDropsSubscriptions ==
    hist.last_switch = "returned" =>
        /\ \A i \in 1..Len(pending_entity_subscriptions) :
               pending_entity_subscriptions[i].ep = hist.epoch
        /\ \A h \in handlers : h.ep = hist.epoch

\* switch_server returned (after its connect) and the registry holds, under
\* the new identity, the listener of a subscription requested before it
C9_Witness ==
    /\ hist.last_switch = "returned"
    /\ hist.epoch = 1
    /\ ws = "connected"
    /\ \E h \in handlers : h.ep = 0 /\ h.id = server_id

(***************************************************************************)
(* C10: a switch_server with valid arguments on a client that is not a     *)
(* test client does not end with the limiter's unknown-identity error;     *)
(* after it the limiter holds a bucket for the new identity and for no     *)
(* other, full until the first request of the new identity is admitted.    *)
(***************************************************************************)
C10_SwitchRebuildsBucket ==
    /\ hist.last_switch # "UnknownIdentity"
    /\ hist.epoch > 0 => DOMAIN socket_buckets = {server_id}
    /\ hist.epoch > 0 /\ hist.issued = << >> /\ Quiet
       /\ HasBucket(socket_buckets, server_id) =>
           socket_buckets[server_id] = Capacity

\* a switch from identity 1 to identity 2 ended with the unknown-identity
\* error: identity 1 keeps its bucket, identity 2 has none
C10_Witness ==
    /\ hist.last_switch = "UnknownIdentity"
    /\ server_id = 2
    /\ DOMAIN socket_buckets = {1}
    /\ ws = "none"

(***************************************************************************)
(* C11: in every state, a switch_server that is rejected (test client:     *)
(* ServerSwitchDisallowedError; an identity argument missing: ValueError)  *)
(* changes nothing: connection, identity, sequence counter, limiter,       *)
(* listeners, queue and every call are as before it.                       *)
(***************************************************************************)
C11_RejectedSwitch ==
    \A id \in Ids, valid, raise_rl, connect \in BOOLEAN :
        use_test_server \/ ~valid =>
            LET s == SwitchServer(Cur, id, valid, raise_rl, connect) IN
            /\ s.hist.last_switch = IF use_test_server
                                    THEN "ServerSwitchDisallowedError"
                                    ELSE "ValueError"
            /\ [s EXCEPT !.hist.last_switch = hist.last_switch] = Cur

\* a switch was rejected on a test client that is connected, has issued a
\* sequence number, spent a token and holds a queued subscription
C11_Witness ==
    /\ hist.last_switch = "ServerSwitchDisallowedError"
    /\ use_test_server
    /\ ws = "connected"
    /\ seq > FirstSeq
    /\ socket_buckets[server_id] < Capacity
    /\ pending_entity_subscriptions # << >>

\* create_camera_manager(cam) while the session held is for cam: the caller
\* is returned the session held, and nothing else happens
C12_SameCamera(cam) ==
    CreateCameraManager(cam) /\ camera_manager = cam =>
        /\ last'.kind = "camera" /\ last'.arg = cam
        /\ last'.caller_saw = "returned"
        /\ last'.seq = 0
        /\ UNCHANGED << seq, socket_buckets, wire, pending_for_response,
                        responses, camera_manager, calls, hist >>

\* create_camera_manager(cam) while the session held is for another camera
\* (or none), when its call does not end at once: it waits for admission
\* with nothing drawn or sent, or it drew one sequence number, its envelope
\* is on the transport and it waits for the reply; the session held is still
\* the old one
C12_OtherCamera(cam) ==
    CreateCameraManager(cam) /\ camera_manager # cam /\ last'.pc # "done" =>
        /\ camera_manager' = camera_manager
        /\ \E c \in Calls :
               /\ calls[c].pc = "idle"
               /\ calls'[c].kind = "camera" /\ calls'[c].arg = cam
               /\ \/ /\ calls'[c].pc = "admit"
                     /\ UNCHANGED << seq, wire, socket_buckets >>
                  \/ /\ calls'[c].pc \in {"poll1", "poll2"}
                     /\ calls'[c].seq = seq
                     /\ seq' = seq + 1
                     /\ hist'.issued = Append(hist.issued, seq)
                     /\ Envelope(calls'[c]) \in DOMAIN wire'
                     /\ DOMAIN wire' = DOMAIN wire \cup {Envelope(calls'[c])}

\* the session held is replaced only by a camera call that returns with the
\* reply, without error, to its own envelope, and by the session for its camera
C12_Replaced ==
    camera_manager' # camera_manager =>
        /\ last'.pc = "done" /\ last'.kind = "camera" /\ last'.exc = ""
        /\ last'.took.seq = last'.seq /\ last'.took.error = ""
        /\ camera_manager' = last'.arg

Unanswered(k) ==
    /\ k.pc \in {"poll1", "poll2"}
    /\ k.seq \in pending_for_response
    /\ k.seq \notin DOMAIN responses

(***************************************************************************)
(* C13: a call waiting for a reply that does not arrive resends its        *)
(* envelope once 4 short poll intervals have elapsed: `attempts`, the      *)
(* number of short intervals the call has slept since its envelope was     *)
(* last put on the transport (the one it is in included), never passes 4.  *)
(***************************************************************************)
C13_ResendAfterFourPolls ==
    \A c \in Calls : Unanswered(calls[c]) => calls[c].attempts <= 4

\* the poll loop as the code runs it: a call woken with no reply resends
\* exactly when it has slept ShortPolls + 1 short intervals, the resend puts
\* the same envelope on the transport and restarts the count
C13_CodeCadence ==
    [][\A c \in Calls :
          PollWake(c) /\ calls[c].pc = "poll2" /\ Unanswered(calls[c]) =>
              IF calls[c].attempts = ShortPolls + 1
              THEN /\ After(c).attempts = 0
                   /\ After(c).pc = "poll2"
                   /\ Envelope(After(c)) = Envelope(calls[c])
                   /\ Envelope(calls[c]) \in DOMAIN wire'
              ELSE /\ After(c).attempts = calls[c].attempts + 1
                   /\ wire' = wire]_vars

\* a call sleeps its eleventh short interval, its envelope unanswered on the
\* transport since the first send, nothing resent
C13_Witness ==
    \E c \in Calls :
        /\ Unanswered(calls[c])
        /\ calls[c].attempts = ShortPolls + 1
        /\ calls[c].rl = 0
        /\ wire[Envelope(calls[c])] = 1

\* SpecAdmit: a camera request made while no call is in flight, and wake-up
\* requests, on an open connection whose bucket the server's rate_limit
\* reply empties.  The event loop ends every sleep and
\* time passes: a refill that is due and a wake-up that is due do happen.
CreateCameraManagerAlone(cam) ==
    /\ Quiet
    /\ CreateCameraManager(cam)

NextAdmit ==
    \/ SendWakeupRequest
    \/ \E cam \in Cams : CreateCameraManagerAlone(cam)
    \/ \E c \in Calls : AdmissionWake(c)
    \/ \E c \in Calls : PollWake(c)
    \/ \E c \in Calls : RefillWake(c)
    \/ \E e \in DOMAIN wire, err \in Errors : Receive(e, err)
    \/ Tick

SpecAdmit ==
    /\ InitConnected
    /\ [][NextAdmit]_vars
    /\ WF_vars(Tick)
    /\ \A c \in Calls : WF_vars(AdmissionWake(c))

\* the call that ran in slot c in a step, after the step
Ran(c) == IF calls'[c].pc = "idle" THEN last' ELSE calls'[c]

\* the step runs _handle_ratelimit for the call in slot c: a new awaited
\* request, or the end of the sleep of one that waits for admission
AdmitStep(c) ==
    \/ calls[c].pc = "admit" /\ AdmissionWake(c)
    \/ /\ calls[c].pc = "idle"
       /\ c = LowestFree(Cur)
       /\ \/ SendWakeupRequest
          \/ \E cam \in Cams : camera_manager # cam /\ CreateCameraManager(cam)

\* one run of _handle_ratelimit: with the tokens in the bucket they are taken
\* and the request goes on to draw its sequence number; without them the call
\* raises RateLimitError (raise mode) or sleeps (wait mode), bucket, counter
\* and transport untouched
C14_Step(c) ==
    AdmitStep(c) =>
        IF socket_buckets[server_id] >= Amount
        THEN /\ socket_buckets'[server_id] = socket_buckets[server_id] - Amount
             /\ Ran(c).seq = seq
             /\ seq' = seq + 1
             /\ Ran(c).exc # "RateLimitError"
        ELSE /\ UNCHANGED << socket_buckets, seq, wire, pending_for_response >>
             /\ Ran(c).seq = 0
             /\ IF raise_ratelimit_exception
                THEN Ran(c).pc = "done" /\ Ran(c).exc = "RateLimitError"
                ELSE Ran(c).pc = "admit" /\ Ran(c).exc = ""

C14_State ==
    /\ last.exc = "RateLimitError" => raise_ratelimit_exception /\ last.seq = 0
    /\ \A c \in Calls : calls[c].pc = "admit" =>
           ~raise_ratelimit_exception /\ calls[c].seq = 0

Records == {calls[c] : c \in Calls} \cup {last}

(***************************************************************************)
(* C15: every transmission that tokens were consumed for, the first send   *)
(* of a request or the re-admitted resend of the rate-limit recovery, has  *)
(* its own heartbeat.reset_rhythm() call, and a call whose admission was   *)
(* rejected (asleep for tokens, or ended with RateLimitError) made none.   *)
(***************************************************************************)
C15_HeartbeatPerAdmittedSend ==
    \A k \in Records :
        /\ k.atx <= k.beats
        /\ k.pc = "admit" \/ k.exc = "RateLimitError" => k.beats = 0

\* what the code does: reset_rhythm() once, at the end of _handle_ratelimit,
\* and not again in the recovery
C15_CodeHeartbeat ==
    \A k \in Records :
        /\ k.beats = IF k.seq # 0 THEN 1 ELSE 0
        /\ k.atx <= k.beats + k.rtx
        /\ k.pc = "admit" \/ k.exc = "RateLimitError" => k.beats = 0

\* a call resent its envelope after the recovery's consume: two admitted
\* transmissions, one reset_rhythm()
C15_Witness ==
    \E c \in Calls :
        /\ calls[c].rl = 1
        /\ calls[c].rtx = 1
        /\ calls[c].atx = 2
        /\ calls[c].beats = 1

\* the poll loop's sleep ends with the reply recorded
PollWakeAnswered(c) ==
    /\ calls[c].seq \in DOMAIN responses
    /\ PollWake(c)

\* switch_server with valid arguments, the rate-limit mode kept, no connect
SwitchIdentity(id) == Switch(id, TRUE, raise_ratelimit_exception, FALSE)

\* SpecListeners: listeners are registered and removed on an open
\* connection, an entity subscription runs to its registration, and the
\* endpoint is switched
NextListeners ==
    \/ \E f \in Coros : TeamEvent(f)
    \/ \E f \in Coros : ChatEvent(f)
    \/ \E f \in Coros : MarkerEvent(f)
    \/ \E f \in Coros : ProtobufReceived(f)
    \/ \E l \in Listeners : RemoveListenerCall(l)
    \/ \E eid \in Entities : EntityEventAlone(eid)
    \/ \E c \in Calls : Start(c)
    \/ \E c \in Calls : PollWakeAnswered(c)
    \/ \E e \in DOMAIN wire, err \in Errors : Receive(e, err)
    \/ \E id \in Ids : SwitchIdentity(id)

SpecListeners == InitConnected /\ [][NextListeners]_vars

RegistryNames == {"marker", "chat", "team", "entity", "protobuf"}

\* l is registered in registry r for the client's identity
RegisteredIn(r, l) ==
    CASE r = "marker" -> l \in registries.marker
      [] r = "entity" -> HasEntity(handlers, l, server_id)
      [] OTHER -> Has(registries[r], l, server_id)

Registered(l) ==
    IsRegisteredListener(l) /\ \E r \in RegistryNames : RegisteredIn(r, l)

C16_Step(l) ==
    RemoveListenerCall(l) =>
        /\ hist'.removed = Returned(l, Registered(l))
        /\ Registered(l) =>
               \E r \in RegistryNames : RegisteredIn(r, l) /\ ~RegisteredIn(r, l)'
        /\ ~Registered(l) => UNCHANGED << registries, handlers >>

C16_WitnessFalse ==
    /\ ~hist.removed.returned
    /\ \E x \in registries.chat : x.id # server_id /\ x.l = hist.removed.l

\* what one step does to the bucket of identity id: it is topped up by a
\* refresh, drained by a call that took a rate_limit reply, or `Amount`
\* tokens that were there are taken from it
C17_Step(id) ==
    id \in DOMAIN socket_buckets /\ id \in DOMAIN socket_buckets' =>
        LET old == socket_buckets[id]
            new == socket_buckets'[id]
        IN  \/ new >= old
            \/ /\ new = 0
               /\ \E c \in Calls : After(c).rl = calls[c].rl + 1
            \/ /\ old >= Amount
               /\ new = old - Amount

C17_State ==
    \A id \in DOMAIN socket_buckets : socket_buckets[id] \in 0..Capacity

(***************************************************************************)
(* C17: whatever the interleaving of callers in _handle_ratelimit, calls   *)
(* in rate-limit recovery and refills, a bucket holds between 0 and        *)
(* capacity tokens, and tokens are consumed only in the step that found    *)
(* them available: a consume never takes tokens that are not there.        *)
(***************************************************************************)
C17_BucketBounds ==
    /\ []C17_State
    /\ [][\A id \in Ids : C17_Step(id)]_vars

\* a call waits in the recovery's refill loop while a later request has been
\* admitted and polls, the bucket empty
C17_Witness ==
    \E c, d \in Calls :
        /\ calls[c].pc = "refill"
        /\ calls[c].seq = 1
        /\ calls[d].pc \in {"poll1", "poll2"}
        /\ calls[d].seq = 2
        /\ socket_buckets[server_id] = 0

\* close_connection leaves the calls that poll where they are
C18_CloseStep ==
    CloseConnection =>
        \A c \in Calls :
            calls[c].pc \in {"poll1", "poll2"} =>
                calls'[c] = [calls[c] EXCEPT !.closed = TRUE]

\* the call in slot c is at a resend attempt: its next wake-up resends
ResendDue(k) ==
    \/ k.pc = "poll1" /\ k.attempts > ShortPolls
    \/ k.pc = "poll2" /\ k.seq \notin sent_requests /\ k.attempts > ShortPolls
    \/ k.pc = "poll2" /\ k.seq \in sent_requests /\ k.attempts > SentPolls

\* a wake-up of a call without reply, the connection closed under it and not
\* open now: it polls on, or at its resend attempt fails with
\* ClientNotConnectedError; nothing is transmitted
C18_PollStep(c) ==
    calls[c].closed /\ Unanswered(calls[c]) /\ ws # "connected" /\ PollWake(c) =>
        /\ wire' = wire
        /\ IF ResendDue(calls[c])
           THEN /\ After(c).pc = "done"
                /\ After(c).exc = "ClientNotConnectedError"
           ELSE /\ calls'[c] = [calls[c] EXCEPT !.attempts = @ + 1]

C18_State ==
    \A k \in Records :
        /\ k.pc = "poll1" => k.attempts <= SentPolls + 1
        /\ k.pc = "poll2" => k.attempts <= ShortPolls + 1
        /\ k.late => hist.nconn > 1
        /\ k.closed /\ ~k.late /\ k.pc = "done" /\ k.took = NoReply =>
               k.exc = "ClientNotConnectedError"

\* C18 as stated: a call that polled when the connection was closed transmits
\* nothing after the close, and without a reply it ends with
\* ClientNotConnectedError
C18_NothingAfterClose ==
    \A k \in Records :
        /\ ~k.late
        /\ k.closed /\ k.pc = "done" /\ k.took = NoReply =>
               k.exc = "ClientNotConnectedError"

(***************************************************************************)
(* C18: close_connection while a call polls for its reply leaves the call  *)
(* polling; with no reply recorded and the connection not open at its next *)
(* resend attempt, which comes within ShortPolls + 1 poll intervals, the   *)
(* call fails there with ClientNotConnectedError; nothing is transmitted   *)
(* while the connection is closed, and a call transmits after the close    *)
(* only on a connection that was opened after it.                          *)
(***************************************************************************)
C18_ClosedWhilePolling ==
    /\ []C18_State
    /\ [][C18_CloseStep /\ \A c \in Calls : C18_PollStep(c)]_vars

\* a call that polled when the connection was closed ended, no connection
\* open, with ClientNotConnectedError and without another transmission
C18_Witness ==
    /\ last.closed
    /\ ~last.late
    /\ last.exc = "ClientNotConnectedError"
    /\ last.caller_saw = "ClientNotConnectedError"
    /\ last.took = NoReply
    /\ wire = << >>
    /\ ws = "none"

\* the connection was reopened before the resend attempt of a call that
\* polled through the close: the call resent its envelope on it
C18_WitnessReopened ==
    \E c \in Calls :
        /\ calls[c].closed
        /\ calls[c].late
        /\ Envelope(calls[c]) \in DOMAIN wire
        /\ hist.nconn = 2

\* SpecThread: entity subscriptions requested, on an open connection, by a
\* thread that is not the event loop's; the thread and the loop interleave
NextThread ==
    \/ \E eid \in Entities : EntityEventFromThread(eid)
    \/ \E c \in Calls : AttachCallback(c)
    \/ \E c \in Calls : Start(c)
    \/ \E c \in Calls : AdmissionWake(c)
    \/ \E c \in Calls : PollWake(c)
    \/ \E c \in Calls : RefillWake(c)
    \/ \E e \in DOMAIN wire, err \in Errors : Receive(e, err)
    \/ Tick

SpecThread == InitConnected /\ [][NextThread]_vars

(***************************************************************************)
(* C19: for a subscription requested from another thread than the event    *)
(* loop's, the completion callback (the registration of the listener or    *)
(* the registration error) is run by the event loop, never by the          *)
(* requesting thread, also when the query is complete by the time the      *)
(* callback is attached.                                                   *)
(***************************************************************************)
C19_CompletionOnLoop == \A k \in Records : k.ran_on # "requester"

\* a callback that was attached before its future was done is run by the
\* event loop, and only a thread that found the future done runs it itself
C19_AttachedFirst ==
    [][\A c \in Calls :
          /\ calls[c].attached /\ After(c).ran_on # "" => After(c).ran_on = "loop"
          /\ After(c).ran_on = "requester" =>
                 calls[c].pc = "result" /\ AttachCallback(c)
      ]_vars

\* the entity-info reply was taken before the requesting thread attached the
\* callback: the callback ran in that thread and registered the listener
C19_Witness ==
    /\ last.kind = "entity"
    /\ last.ran_on = "requester"
    /\ last.exc = ""
    /\ \E h \in handlers : h.eid = last.arg /\ h.ep = last.ep

\* SpecStale: a camera request polls for its reply while the endpoint is
\* switched and the client connects again
NextStale ==
    \/ \E cam \in Cams : CreateCameraManagerAlone(cam)
    \/ \E c \in Calls : PollWake(c)
    \/ \E id \in Ids, valid, raise_rl, connect \in BOOLEAN :
           Switch(id, valid, raise_rl, connect)
    \/ Connect
    \/ ConnectOk

SpecStale == InitConnected /\ [][NextStale]_vars

\* the identity the websocket was created for: RustRemote.connect passes
\* self.server_id (lines 77-78), and switch_server closes the websocket
\* before it replaces the identity
ConnectionIdentity == server_id

(***************************************************************************)
(* C20: every envelope the transport holds was stamped with the identity   *)
(* the connection was opened for: after switch_server no call made for the *)
(* former identity retransmits its envelope through the new connection.    *)
(***************************************************************************)
C20_NoForeignEnvelope ==
    \A e \in DOMAIN wire : e.id = ConnectionIdentity

\* a call keeps the identity its envelope was stamped with, and resends that
\* envelope
C20_EnvelopeKept ==
    /\ \A c \in Calls : calls[c].seq # 0 /\ calls[c].ep = hist.epoch =>
           calls[c].id = server_id
    /\ \A e \in DOMAIN wire : \/ e.id = ConnectionIdentity
                              \/ \E c \in Calls : /\ Envelope(calls[c]) = e
                                                  /\ calls[c].ep < hist.epoch
                                                  /\ calls[c].late

\* after the switch to identity 2 and a connect, a call made for identity 1
\* has resent its envelope: the connection of identity 2 carries it
C20_Witness ==
    /\ server_id = 2
    /\ ws = "connected"
    /\ hist.epoch = 1
    /\ \E c \in Calls : /\ calls[c].id = 1
                        /\ calls[c].pc \in {"poll1", "poll2"}
                        /\ calls[c].attempts = 0
                        /\ Envelope(calls[c]) \in DOMAIN wire

(***************************************************************************)
(* C21: when BaseRustSocket.connect returns without raising, the           *)
(* connection is CONNECTED; after a connect attempt that failed, another   *)
(* connect() tries to establish the transport again.                       *)
(***************************************************************************)
C21_ConnectReturnsConnected == hist.connect_returned \in {"", "connected"}

\* what the code does: connect opens a websocket only when remote.ws is
\* None, and otherwise leaves connection and attempt count as they are
C21_CodeConnect ==
    [][Connect =>
          IF ws = "none"
          THEN ws' = "pending" /\ hist'.nconn = hist.nconn + 1
          ELSE /\ UNCHANGED << ws, connecting, wire, calls >>
               /\ hist'.nconn = hist.nconn
               /\ hist'.connect_returned = ws
      ]_vars

\* after the one connect attempt failed, a second connect() has returned
\* without raising: the websocket is still the disconnected one and no
\* second attempt was made
C21_Witness ==
    /\ hist.connect_returned = "closed"
    /\ ws = "closed"
    /\ ~connecting
    /\ hist.nconn = 1

\* SpecStarve: camera requests on an open connection that the server keeps
\* answering with rate_limit errors.  The event loop ends every sleep (of
\* the poll loop: the one that finds the reply) and time passes.
NextStarve ==
    \/ \E cam \in Cams : CreateCameraManager(cam)
    \/ \E c \in Calls : AdmissionWake(c)
    \/ \E c \in Calls : PollWakeAnswered(c)
    \/ \E c \in Calls : RefillWake(c)
    \/ \E e \in DOMAIN wire : Throttle(e)
    \/ Tick

SpecStarve ==
    /\ InitConnected
    /\ [][NextStarve]_vars
    /\ WF_vars(Tick)
    /\ \A c \in Calls : /\ WF_vars(AdmissionWake(c))
                        /\ WF_vars(PollWakeAnswered(c))
                        /\ WF_vars(RefillWake(c))

\* the call in slot c is in rate-limit recovery, its envelope not resent yet
Recovering(c) == calls[c].pc \in {"refill", "readmit"}

(***************************************************************************)
(* C22: on an open connection with the bucket refilling, a call that took  *)
(* a rate_limit reply does retransmit its envelope in the end, whatever    *)
(* other callers consume or drain meanwhile.                               *)
(***************************************************************************)
C22_RecoveryEnds == \A c \in Calls : Recovering(c) ~> ~Recovering(c)

\* the recovery is left only by the resend, after the refill loop saw the
\* bucket full
C22_LeavesByResend ==
    [][\A c \in Calls :
          Recovering(c) /\ ~Recovering(c)' =>
              /\ After(c).rtx = Count(calls[c].rtx)
              /\ After(c).seq = calls[c].seq
              /\ \/ socket_buckets[server_id] = Capacity
                 \/ calls[c].pc = "refill"
                    /\ Refresh(socket_buckets[server_id]) = Capacity
      ]_vars

\* two calls in recovery at once, one after its first rate_limit reply, the
\* other drained the bucket again after its resend
C22_Witness ==
    \E c, d \in Calls :
        /\ calls[c].pc = "refill" /\ calls[c].rl = 1
        /\ calls[d].pc = "refill" /\ calls[d].rl = 2
        /\ socket_buckets[server_id] = 0

\* a step ends a call with ClientNotConnectedError at its first send: the
\* call never transmitted
RefusedFirstSend ==
    /\ last'.kind # "none"
    /\ last'.exc = "ClientNotConnectedError"
    /\ last'.atx = 0

(***************************************************************************)
(* C23: a send_wakeup_request, entity-info query or camera subscribe that  *)
(* fails with ClientNotConnectedError leaves the token bucket, the         *)
(* sequence counter and the ignored_responses list as they were before     *)
(* the call.                                                               *)
(***************************************************************************)
C23_RefusedSendLeavesNoTrace ==
    [][RefusedFirstSend =>
          /\ socket_buckets' = socket_buckets
          /\ seq' = seq
          /\ ignored_responses' = ignored_responses
      ]_vars

\* what the code does: the refused call has consumed its tokens, drawn its
\* sequence number and, for a wakeup, recorded it to be ignored, all before
\* send_message raised; nothing is transmitted
C23_CodeRefusedSend ==
    [][RefusedFirstSend =>
          /\ socket_buckets' = Consume(socket_buckets, server_id, Amount)
          /\ seq' = seq + 1
          /\ last'.seq = seq
          /\ last'.beats = 1
          /\ ignored_responses' = IF last'.kind = "wakeup"
                                  THEN Append(ignored_responses, seq)
                                  ELSE ignored_responses
          /\ wire' = wire
          /\ ws # "connected"
      ]_vars

\* a wakeup request was refused with no websocket: its token is gone, its
\* sequence number is drawn and is on the ignored list
C23_Witness ==
    /\ last.kind = "wakeup"
    /\ last.exc = "ClientNotConnectedError"
    /\ last.atx = 0
    /\ ws = "none"
    /\ seq = last.seq + 1
    /\ \E i \in DOMAIN ignored_responses : ignored_responses[i] = last.seq
    /\ socket_buckets[server_id] = Capacity - Amount
    /\ wire = << >>

\* SpecCamera: camera sessions are created on an open connection, the
\* endpoint is switched and the client connects again
NextCamera ==
    \/ \E cam \in Cams : CreateCameraManager(cam)
    \/ \E c \in Calls : PollWakeAnswered(c)
    \/ \E e \in DOMAIN wire : Receive(e, "")
    \/ \E id \in Ids, connect \in BOOLEAN :
           Switch(id, TRUE, raise_ratelimit_exception, connect)
    \/ Connect
    \/ ConnectOk

SpecCamera == InitConnected /\ [][NextCamera]_vars

\* the step is a create_camera_manager that returned the session it held,
\* nothing sent
ReturnedHeldSession ==
    /\ last'.kind = "camera"
    /\ last'.caller_saw = "returned"
    /\ last'.atx = 0

(***************************************************************************)
(* C24: the session a create_camera_manager call returns was built from    *)
(* the reply to a subscribe made for the endpoint the call was made on: a  *)
(* session obtained on the previous endpoint is never returned after       *)
(* switch_server.                                                          *)
(***************************************************************************)
C24_SessionOfThisEndpoint ==
    (last.kind = "camera" /\ last.caller_saw = "returned") =>
        /\ camera_manager = last.arg
        /\ hist.cam_ep = last.ep

\* what the code does: switch_server leaves remote.camera_manager as it is,
\* and create_camera_manager returns the held session without sending
\* exactly when its camera id is the requested one, whatever the endpoint
C24_CodeSessionKept ==
    /\ [][hist.epoch' # hist.epoch =>
              /\ camera_manager' = camera_manager
              /\ hist.cam_ep' = hist.cam_ep]_vars
    /\ [][ReturnedHeldSession =>
              /\ camera_manager = last'.arg
              /\ UNCHANGED <<camera_manager, seq, socket_buckets, wire>>]_vars
    /\ [][\A cam \in Cams :
              (camera_manager = cam /\ (ENABLED CreateCameraManager(cam))
               /\ <<CreateCameraManager(cam)>>_vars
               /\ last'.arg = cam /\ last'.kind = "camera")
                  => ReturnedHeldSession]_vars

\* after a switch to another identity and a new connection, a
\* create_camera_manager returned the session of the previous endpoint
C24_Witness ==
    /\ last.kind = "camera"
    /\ last.caller_saw = "returned"
    /\ last.atx = 0
    /\ last.ep = 1
    /\ hist.cam_ep = 0
    /\ camera_manager = last.arg
    /\ server_id # 1
    /\ ws = "connected"

(***************************************************************************)
(* RustRemote.sent_requests (line 58) is a public list that no code in     *)
(* src writes; whoever holds the RustRemote may append to it or remove     *)
(* from it while calls poll.  Only membership is read (line 126).          *)
(***************************************************************************)
\* history: the calls polling for sequence number s saw its membership change
Flipped(cs, s) ==
    [c \in DOMAIN cs |->
        IF cs[c].pc \in {"poll1", "poll2"} /\ cs[c].seq = s
        THEN [cs[c] EXCEPT !.flipped = TRUE] ELSE cs[c]]

\* remote.sent_requests.append(s)
SentRequestsAppend(s) ==
    /\ s \notin sent_requests
    /\ Install([Cur EXCEPT !.sent_requests = @ \cup {s},
                           !.calls = Flipped(@, s)])

\* remote.sent_requests.remove(s)
SentRequestsRemove(s) ==
    /\ s \in sent_requests
    /\ Install([Cur EXCEPT !.sent_requests = @ \ {s},
                           !.calls = Flipped(@, s)])

\* SpecPoll: one camera request at a time polls for its reply on an open
\* connection while sent_requests changes under it
NextPoll ==
    \/ \E cam \in Cams : CreateCameraManagerAlone(cam)
    \/ \E c \in Calls : PollWake(c)
    \/ \E e \in DOMAIN wire : Receive(e, "")
    \/ \E s \in SeqNums : SentRequestsAppend(s)
    \/ \E s \in SeqNums : SentRequestsRemove(s)

SpecPoll == InitConnected /\ [][NextPoll]_vars

\* the call in slot c is asleep in the poll loop
Polling(c) == calls[c].pc \in {"poll1", "poll2"}

\* a step of the poll loop of call c that went round the loop: no reply taken
PollRound(c) ==
    /\ Polling(c)
    /\ PollWake(c)
    /\ After(c).pc \in {"poll1", "poll2"}

\* a round either sleeps a short interval, counting attempts up, or
\* retransmits and restarts the count
PollResent(c) == PollRound(c) /\ After(c).attempts = 0

(***************************************************************************)
(* C25: in the poll loop of get_response attempts never exceeds 12,        *)
(* whatever the membership of the sequence number in sent_requests does;   *)
(* the retransmission behind `attempts > 40` is never executed, every      *)
(* retransmission of the poll loop is the one followed by the 1-second     *)
(* sleep, and with the membership unchanged during the wait exactly 11     *)
(* short sleeps separate two consecutive retransmissions.                  *)
(***************************************************************************)
C25_PollCadence ==
    /\ [](\A c \in Calls : calls[c].attempts <= ShortPolls + 2)
    /\ [][\A c \in Calls :
             PollRound(c) =>
                 /\ Envelope(After(c)) = Envelope(calls[c])
                 /\ IF PollResent(c)
                    THEN /\ After(c).pc = "poll2"
                         /\ calls[c].attempts \in {ShortPolls + 1, ShortPolls + 2}
                         /\ ~calls[c].flipped => calls[c].attempts = ShortPolls + 1
                         /\ Envelope(calls[c]) \in DOMAIN wire'
                    ELSE /\ After(c).attempts = calls[c].attempts + 1
                         /\ wire' = wire
                         /\ ~ResendDue(calls[c])
      ]_vars
    /\ [][\A c \in Calls :
             (Polling(c) /\ PollWake(c) /\ ResendDue(calls[c])
              /\ Unanswered(calls[c])) => PollResent(c)]_vars

\* a call whose sequence number was put into sent_requests at its resend
\* attempt sleeps a twelfth short interval in the first `if`
C25_Witness ==
    \E c \in Calls :
        /\ calls[c].pc = "poll1"
        /\ calls[c].attempts = ShortPolls + 2
        /\ calls[c].flipped
        /\ calls[c].seq \in sent_requests

\* a call whose sequence number stayed in sent_requests retransmitted after
\* its eleventh short sleep and is in the 1-second sleep
C25_WitnessSent ==
    \E c \in Calls :
        /\ calls[c].pc = "poll2"
        /\ calls[c].attempts = 0
        /\ ~calls[c].flipped
        /\ calls[c].seq \in sent_requests
        /\ last.kind = "none"
        /\ Envelope(calls[c]) \in DOMAIN wire

====
